---- MODULE Spec2Model ----
(***************************************************************************)
(* Synthetic tick generation engine (data_generator/tick_generator.py).    *)
(*                                                                         *)
(* Numbers.  Floating point values are fixed point integers:               *)
(*   prices            millionths (1.0 = 1000000; round(x, 4) rounds to    *)
(*                     multiples of 100)                                   *)
(*   spread_mean/vol   ten-thousandths (0.0015 = 15)                       *)
(*   vol_noise,                                                            *)
(*   trend_weight      tenths (0.4 = 4, 0.6 = 6)                           *)
(*   timestamps        microseconds since the first minute of the session  *)
(*                     (the resolution of datetime.timedelta)              *)
(*   probabilities     hundredths                                          *)
(* A standard normal draw is an integer number of standard deviations in   *)
(* -3..3, a uniform draw on [0, 1) a number of hundredths in 0..99.        *)
(***************************************************************************)
EXTENDS Integers, Sequences, FiniteSets, TLC

VARIABLES
    rng,        \* the process-wide numpy random stream (np.random)
    engine,     \* engine[i]: the configuration fields of instance i, or NoEngine
    calls,      \* calls[i]: what each generate_ticks call on instance i was given and returned
    untouched,  \* untouched[i]: nothing used the stream since instance i was constructed
    tvol,       \* _allocate_volumes on its own: total_volume, the draws, the result
    tsess,      \* the timestamp column on its own: candle starts, tick counts, the column
    probe       \* one sub-algorithm on its own: its arguments, then its locals and result

vars == <<rng, engine, calls, untouched, tvol, tsess, probe>>

----------------------------------------------------------------------------
(* Arithmetic *)

Max(a, b) == IF a >= b THEN a ELSE b

Min(a, b) == IF a <= b THEN a ELSE b

Abs(a) == IF a < 0 THEN 0 - a ELSE a

\* a / b rounded to the nearest integer, ties to even (IEEE and Python's round); b > 0
RoundHalfEven(a, b) ==
    LET q == a \div b
        r == a % b
    IN  IF 2 * r < b THEN q
        ELSE IF 2 * r > b THEN q + 1
        ELSE IF q % 2 = 0 THEN q ELSE q + 1

\* round(x, 4) of a price in millionths
Round4(x) == RoundHalfEven(x, 100) * 100

\* int(x) and astype(int) of the rational n / d, d > 0: truncation toward zero
TruncInt(n, d) == IF n >= 0 THEN n \div d ELSE 0 - ((0 - n) \div d)

RECURSIVE SumSeq(_)
SumSeq(s) ==
    IF s = <<>> THEN 0
    ELSE IF Len(s) = 1 THEN s[1]
    ELSE LET h == Len(s) \div 2
         IN  SumSeq(SubSeq(s, 1, h)) + SumSeq(SubSeq(s, h + 1, Len(s)))

----------------------------------------------------------------------------
(* The random stream: one ordered sequence of draws, a function of the     *)
(* seeded state alone.                                                     *)

\* np.random.seed(seed)
SeedState(seed) == seed % 65536

\* one step of the generator
RngNext(s) == (25173 * s + 13849) % 65536

RECURSIVE RngAfter(_, _)
\* the state after n draws (a state is never negative)
RngAfter(s, n) ==
    IF n <= 0 \/ s < 0 THEN s
    ELSE IF n = 1 THEN RngNext(s)
    ELSE RngAfter(RngAfter(s, n \div 2), n - (n \div 2))

\* the standard normal variate the n-th next draw yields (n >= 1)
StdNormal(s, n) == ((RngAfter(s, n) \div 256) % 7) - 3

\* the uniform variate on [0, 1), in hundredths, the n-th next draw yields
Uniform01(s, n) == ((RngAfter(s, n) \div 256) * 100) \div 256

\* np.random.normal(loc, scale, size) with size = n: n standard normal variates
NormalDraws(s, n) == [i \in 1..n |-> StdNormal(s, i)]

----------------------------------------------------------------------------
(* The sub-algorithms.  Each takes the variates its np.random call yields  *)
(* as an argument z, so that it is a function of its inputs.               *)

\* 10000 * exp(-10 * m / n), rounded, for the minutes m of sessions of n <= 5 minutes
ExpNeg10(m, n) ==
    LET k == (60 * m) \div n
    IN  CASE k = 0  -> 10000
          [] k = 12 -> 1353
          [] k = 15 -> 821
          [] k = 20 -> 357
          [] k = 24 -> 183
          [] k = 30 -> 67
          [] k = 36 -> 25
          [] k = 40 -> 13
          [] k = 45 -> 6
          [] k = 48 -> 3
          [] k = 60 -> 0

\* _u_shape_curve(minutes, total_minutes): the activity weight of each minute, in
\* ten-thousandths; z[m + 1] is the noise variate of minute m
_u_shape_curve(total_minutes, z) ==
    [i \in 1..total_minutes |->
        LET m              == i - 1
            opening_weight == 3 * ExpNeg10(m, total_minutes)
            closing_weight == 3 * ExpNeg10(total_minutes - m, total_minutes)
            midday_weight  == 10000
            curve          == opening_weight + closing_weight + midday_weight
            noise          == 10 + z[i]
        IN  Max(1000, RoundHalfEven(curve * noise, 10))]

\* the weights scaled by total_ticks without being normalised by their sum
_calculate_intraday_distribution_unnormalised(num_minutes, total_ticks, z) ==
    LET u_curve == _u_shape_curve(num_minutes, z)
    IN  [i \in 1..num_minutes |->
            [num |-> Max(10000, u_curve[i] * total_ticks), den |-> 10000]]

\* _calculate_intraday_distribution(num_minutes, total_ticks): np.maximum(1, share of
\* total_ticks) per minute, each an exact rational num / den
_calculate_intraday_distribution(num_minutes, total_ticks, z) ==
    LET u_curve == _u_shape_curve(num_minutes, z)
        total   == SumSeq(u_curve)
    IN  [i \in 1..num_minutes |->
            [num |-> Max(total, u_curve[i] * total_ticks), den |-> total]]

\* np.linspace(start, stop, num)[i - 1], i in 1..num: the last point is stop itself
Linspace(start, stop, num, i) ==
    IF num = 1 THEN start
    ELSE IF i = num THEN stop
    ELSE start + RoundHalfEven((i - 1) * (stop - start), num - 1)

\* the path left unclipped
_generate_midpath_unclipped(row, num_ticks, trend_weight, z) ==
    [i \in 1..num_ticks |->
        LET start == row.Open
            end   == row.Close
            path  == Linspace(start, end, num_ticks, i)
            noise == RoundHalfEven((row.High - row.Low) * z[i], 200)
            drift == IF num_ticks = 1 THEN 0
                     ELSE RoundHalfEven(trend_weight * (end - start) * (i - 1),
                                        10 * (num_ticks - 1))
        IN  path + drift + noise]

\* the path without its drift term
_generate_midpath_nodrift(row, num_ticks, trend_weight, z) ==
    [i \in 1..num_ticks |->
        LET start == row.Open
            end   == row.Close
            path  == Linspace(start, end, num_ticks, i)
            noise == RoundHalfEven((row.High - row.Low) * z[i], 200)
            mid   == path + noise
        IN  Max(row.Low, Min(mid, row.High))]

\* _generate_midpath(row, num_ticks): the mid price of each tick
_generate_midpath(row, num_ticks, trend_weight, z) ==
    [i \in 1..num_ticks |->
        LET start == row.Open
            end   == row.Close
            path  == Linspace(start, end, num_ticks, i)
            noise == RoundHalfEven((row.High - row.Low) * z[i], 200)
            drift == IF num_ticks = 1 THEN 0
                     ELSE RoundHalfEven(trend_weight * (end - start) * (i - 1),
                                        10 * (num_ticks - 1))
            mid   == path + drift + noise
        IN  Max(row.Low, Min(mid, row.High))]

\* volumes rounded to the nearest integer instead of truncated
_allocate_volumes_rounded(total_volume, num_ticks, vol_noise, z) ==
    LET weights == [i \in 1..num_ticks |-> Abs(10 + vol_noise * z[i])]
        total   == SumSeq(weights)
    IN  [i \in 1..num_ticks |-> RoundHalfEven(weights[i] * total_volume, total)]

\* _allocate_volumes(total_volume, num_ticks): the volume of each tick.  The weights
\* are in tenths; their sum is not zero for any vol_noise and draw of this model.
_allocate_volumes(total_volume, num_ticks, vol_noise, z) ==
    LET weights == [i \in 1..num_ticks |-> Abs(10 + vol_noise * z[i])]
        total   == SumSeq(weights)
    IN  [i \in 1..num_ticks |-> TruncInt(weights[i] * total_volume, total)]

\* _generate_spread(mid_price): <<bid, ask>>
_generate_spread(mid_price, spread_mean, spread_vol, z) ==
    LET spread_pct == spread_mean + spread_vol * z
        half       == RoundHalfEven(mid_price * spread_pct, 20000)
        bid        == mid_price - half
        ask        == mid_price + half
    IN  <<bid, ask>>

\* timedelta(seconds=60 / num_ticks): a whole number of microseconds
TickInterval(num_ticks) == RoundHalfEven(60000000, num_ticks)

\* timestamp + i * dt
TickTimestamp(timestamp, num_ticks, i) == timestamp + i * TickInterval(num_ticks)

\* a flat candle taken for a bullish one
ProbBuy_NotStrict(row) == IF row.Close >= row.Open THEN 55 ELSE 45

\* prob_buy of a candle, in hundredths
ProbBuy(row) == IF row.Close > row.Open THEN 55 ELSE 45

\* the uniform(0.999, 1.001) factor minus one, in hundred-thousandths
Slippage(u) == 2 * u - 100

\* the trade priced off the other side's quote
TickLocals_Crossed(cfg, row, mid, s) ==
    LET quote       == _generate_spread(mid, cfg.spread_mean, cfg.spread_vol, StdNormal(s, 1))
        bid         == quote[1]
        ask         == quote[2]
        prob_buy    == ProbBuy(row)
        u           == Uniform01(s, 2)
        side        == IF u < prob_buy THEN "buy" ELSE "sell"
        base        == IF side = "buy" THEN bid ELSE ask
        trade_price == base + RoundHalfEven(base * Slippage(Uniform01(s, 3)), 100000)
    IN  [bid |-> bid, ask |-> ask, prob_buy |-> prob_buy, u |-> u, side |-> side,
         trade_price |-> trade_price]

\* The locals of one pass of the tick loop, whose three draws follow stream state s:
\* the quote, prob_buy, the uniform variate np.random.choice turns into a side (buy
\* when it is below prob_buy), the side and the trade price, all before rounding
TickLocals(cfg, row, mid, s) ==
    LET quote       == _generate_spread(mid, cfg.spread_mean, cfg.spread_vol, StdNormal(s, 1))
        bid         == quote[1]
        ask         == quote[2]
        prob_buy    == ProbBuy(row)
        u           == Uniform01(s, 2)
        side        == IF u < prob_buy THEN "buy" ELSE "sell"
        base        == IF side = "buy" THEN ask ELSE bid
        trade_price == base + RoundHalfEven(base * Slippage(Uniform01(s, 3)), 100000)
    IN  [bid |-> bid, ask |-> ask, prob_buy |-> prob_buy, u |-> u, side |-> side,
         trade_price |-> trade_price]

\* One pass of the tick loop: tick i (from 0) of a candle, whose three draws follow
\* stream state s
MakeTick(cfg, row, num_ticks, i, mid, volume, s) ==
    LET t == TickLocals(cfg, row, mid, s)
    IN  [timestamp   |-> TickTimestamp(row.timestamp, num_ticks, i),
         bid         |-> Round4(t.bid),
         ask         |-> Round4(t.ask),
         trade_price |-> Round4(t.trade_price),
         volume      |-> volume,
         side        |-> t.side]

----------------------------------------------------------------------------
(* generate_ticks *)

OHLCV == {"Open", "High", "Low", "Close", "Volume"}

\* dropna left out: every row is kept
Dropna_KeepAll(ohlcv_df) == ohlcv_df

\* ohlcv_df.dropna(subset=[...]): the rows with none of the five fields missing
Dropna(ohlcv_df) == SelectSeq(ohlcv_df, LAMBDA row : row.nan \cap OHLCV = {})

\* dropna(..., inplace=True): the caller's frame loses its incomplete rows
CallerFrame_InPlace(ohlcv_df) == Dropna(ohlcv_df)

\* The caller's frame once generate_ticks is over.  ohlcv_df = ohlcv_df.dropna(...)
\* binds the local name to a new frame, and iterrows() hands out copies of the rows:
\* nothing writes to the frame that was passed in.
CallerFrame(ohlcv_df) == ohlcv_df

\* The caller's b3_stats once generate_ticks is over: it is tested and read only
CallerStats(b3_stats) == b3_stats

\* b3_stats and 'totneg' in b3_stats: None and the empty dict are both false
HasTarget(b3_stats) ==
    /\ ~b3_stats.none
    /\ b3_stats.items # {}
    /\ \E kv \in b3_stats.items : kv[1] = "totneg"

\* b3_stats['totneg']
Totneg(b3_stats) == (CHOOSE kv \in b3_stats.items : kv[1] = "totneg")[2]

\* max(1, int(tick_distribution[minute_idx])), or ticks_per_min with no distribution
NumTicks(cfg, dist, minute_idx) ==
    IF dist.none THEN cfg.ticks_per_min
    ELSE Max(1, TruncInt(dist.d[minute_idx].num, dist.d[minute_idx].den))

\* The body of the candle loop for one row with the stream at s: the row's ticks, or
\* the exception numpy or Python raises, and the stream after the draws made.
\*   np.linspace raises ValueError for num < 0; np.random.normal raises ValueError
\*   for scale < 0 before it draws; 60 / num_ticks raises ZeroDivisionError.
CandleTicks(cfg, row, num_ticks, s) ==
    IF num_ticks < 0
    THEN [outcome |-> "ValueError", ticks |-> <<>>, rng |-> s]
    ELSE
    LET s1         == RngAfter(s, num_ticks)
        s2         == RngAfter(s1, num_ticks)
        mid_prices == _generate_midpath(row, num_ticks, cfg.trend_weight,
                                        NormalDraws(s, num_ticks))
        volumes    == _allocate_volumes(row.Volume, num_ticks, cfg.vol_noise,
                                        NormalDraws(s1, num_ticks))
    IN  IF cfg.vol_noise < 0
        THEN [outcome |-> "ValueError", ticks |-> <<>>, rng |-> s1]
        ELSE IF num_ticks = 0
        THEN [outcome |-> "ZeroDivisionError", ticks |-> <<>>, rng |-> s2]
        ELSE IF cfg.spread_vol < 0
        THEN [outcome |-> "ValueError", ticks |-> <<>>, rng |-> s2]
        ELSE [outcome |-> "ok",
              ticks   |-> [k \in 1..num_ticks |->
                              MakeTick(cfg, row, num_ticks, k - 1, mid_prices[k],
                                       volumes[k], RngAfter(s2, 3 * (k - 1)))],
              rng     |-> RngAfter(s2, 3 * num_ticks)]

RECURSIVE CandleLoop(_, _, _, _, _, _)
\* for timestamp, row in ohlcv_df.iterrows(): ...  from row minute_idx (from 1) on
CandleLoop(cfg, rows, dist, minute_idx, s, all_ticks) ==
    IF minute_idx > Len(rows)
    THEN [outcome |-> "ok", ticks |-> all_ticks, rng |-> s]
    ELSE LET r == CandleTicks(cfg, rows[minute_idx], NumTicks(cfg, dist, minute_idx), s)
         IN  IF r.outcome # "ok"
             THEN [outcome |-> r.outcome, ticks |-> <<>>, rng |-> r.rng]
             ELSE CandleLoop(cfg, rows, dist, minute_idx + 1, r.rng, all_ticks \o r.ticks)

\* ticks_df.sort_values("timestamp"); reset_index
SortByTimestamp(ticks) == SortSeq(ticks, LAMBDA a, b : a.timestamp < b.timestamp)

\* pd.DataFrame(all_ticks) then sort_values("timestamp"): a frame built from no
\* records has no "timestamp" column, and sort_values raises KeyError
BuildFrame(r) ==
    IF r.outcome # "ok" THEN r
    ELSE IF r.ticks = <<>> THEN [outcome |-> "KeyError", ticks |-> <<>>, rng |-> r.rng]
    ELSE [outcome |-> "ok", ticks |-> SortByTimestamp(r.ticks), rng |-> r.rng]

\* generate_ticks(ohlcv_df, b3_stats) of an engine configured cfg, with the stream at
\* s: what the call returns or raises, and where it leaves the stream
generate_ticks(cfg, ohlcv_df, b3_stats, s) ==
    LET rows == Dropna(ohlcv_df)
        n    == Len(rows)
        dist == IF HasTarget(b3_stats)
                THEN [none |-> FALSE,
                      d    |-> _calculate_intraday_distribution(
                                   n, Totneg(b3_stats), NormalDraws(s, n))]
                ELSE [none |-> TRUE, d |-> <<>>]
        s0   == IF HasTarget(b3_stats) THEN RngAfter(s, n) ELSE s
    IN  BuildFrame(CandleLoop(cfg, rows, dist, 1, s0, <<>>))

----------------------------------------------------------------------------
(* Bounds and input sets *)

\* calls of generate_ticks in one run
MaxCalls == 2

\* the largest ticks_per_min and tick count of the small inputs
MaxTicks == 3

Instances == {1, 2}

\* the states the process-wide stream may be in before any engine seeds it
InitialStreams == {0, 31337}

\* __init__'s defaults
DefaultConfig ==
    [ticks_per_min |-> 120, spread_mean |-> 15, spread_vol |-> 3,
     vol_noise |-> 4, trend_weight |-> 6, seed |-> 42]

\* configurations the documented interface allows, with few ticks per minute
ValidConfigs ==
    {[DefaultConfig EXCEPT !.ticks_per_min = k, !.seed = sd] :
        k \in {1, MaxTicks}, sd \in {42, 7}}
    \cup {[DefaultConfig EXCEPT !.ticks_per_min = 2, !.spread_vol = 10, !.trend_weight = 0]}

\* configurations it does not: __init__ stores whatever it is given
DegenerateConfigs ==
    {[DefaultConfig EXCEPT !.ticks_per_min = 0],
     [DefaultConfig EXCEPT !.ticks_per_min = 0 - 1],
     [DefaultConfig EXCEPT !.ticks_per_min = 2, !.spread_vol = 0 - 3],
     [DefaultConfig EXCEPT !.ticks_per_min = 2, !.vol_noise = 0 - 4]}

Configs == ValidConfigs \cup DegenerateConfigs

\* a row of ohlcv_df: its index (the start of its minute) and columns; nan names the
\* columns whose value is missing
Candle(minute, o, h, l, c, v, nan) ==
    [timestamp |-> minute * 60000000, Open |-> o, High |-> h, Low |-> l,
     Close |-> c, Volume |-> v, nan |-> nan]

Bull(minute) == Candle(minute, 10000000, 10200000, 9950000, 10150000, 12000, {})

Bear(minute) == Candle(minute, 10150000, 10200000, 9950000, 10000000, 7, {})

Incomplete(minute) == Candle(minute, 10000000, 10200000, 9950000, 0, 500, {"Close"})

Sessions ==
    {<<>>,
     <<Incomplete(0)>>,
     <<Bull(0)>>,
     <<Bear(0), Incomplete(1), Bull(2)>>}

\* b3_stats: None, {}, a dict without 'totneg', dicts with it
NoneStats == [none |-> TRUE, items |-> {}]

Dict(items) == [none |-> FALSE, items |-> items]

StatsValues ==
    {NoneStats, Dict({}), Dict({<<"quatot", 100>>}),
     Dict({<<"totneg", 1>>, <<"quatot", 100>>}),
     Dict({<<"totneg", 5>>, <<"quatot", 100>>})}

----------------------------------------------------------------------------
(* The engine and its callers *)

NoVolumes == [total_volume |-> 0, vol_noise |-> 0, z |-> <<>>, volumes |-> <<>>, done |-> FALSE]

NoColumn == [starts |-> <<>>, counts |-> <<>>, column |-> <<>>, done |-> FALSE]

NoProbe == [done |-> FALSE]

TotalCalls == Len(calls[1]) + Len(calls[2])

Init ==
    /\ rng \in InitialStreams
    /\ engine = <<>>
    /\ calls = [i \in Instances |-> <<>>]
    /\ untouched = [i \in Instances |-> FALSE]
    /\ tvol = NoVolumes
    /\ tsess = NoColumn
    /\ probe = NoProbe

\* construction without np.random.seed(seed)
Construct_Unseeded(i, cfg) ==
    /\ i \notin DOMAIN engine
    /\ engine' = engine @@ (i :> cfg)
    /\ rng' = rng
    /\ untouched' = [j \in Instances |-> j = i]
    /\ UNCHANGED <<calls, tvol, tsess, probe>>

\* SyntheticTickGenerator(**cfg): stores the fields and seeds the process-wide stream
Construct(i, cfg) ==
    /\ i \notin DOMAIN engine
    /\ engine' = engine @@ (i :> cfg)
    /\ rng' = SeedState(cfg.seed)
    /\ untouched' = [j \in Instances |-> j = i]
    /\ UNCHANGED <<calls, tvol, tsess, probe>>

\* instance i's generate_ticks(ohlcv_df, b3_stats), from entry to return or raise
GenerateTicks(i, ohlcv_df, b3_stats) ==
    /\ i \in DOMAIN engine
    /\ TotalCalls < MaxCalls
    /\ LET r == generate_ticks(engine[i], ohlcv_df, b3_stats, rng)
       IN  /\ rng' = r.rng
           /\ calls' = [calls EXCEPT ![i] =
                  Append(@, [ohlcv_df |-> ohlcv_df, b3_stats |-> b3_stats,
                             fresh |-> untouched[i],
                             outcome |-> r.outcome, ticks |-> r.ticks,
                             self |-> engine[i],
                             ohlcv_after |-> CallerFrame(ohlcv_df),
                             b3_after |-> CallerStats(b3_stats)])]
    /\ untouched' = [j \in Instances |-> FALSE]
    /\ UNCHANGED <<engine, tvol, tsess, probe>>

\* one engine, as the pipeline holds it
Next ==
    \/ \E cfg \in Configs : Construct(1, cfg)
    \/ \E ohlcv_df \in Sessions, b3_stats \in StatsValues : GenerateTicks(1, ohlcv_df, b3_stats)

Spec == Init /\ [][Next]_vars

----------------------------------------------------------------------------
(* Two engine instances in one process *)

SessionsTwo == {<<Bull(0)>>, <<Bear(0), Incomplete(1), Bull(2)>>}

StatsTwo == {NoneStats, Dict({<<"totneg", 5>>, <<"quatot", 100>>})}

NextTwo ==
    \/ \E i \in Instances, cfg \in ValidConfigs : Construct(i, cfg)
    \/ \E i \in Instances, ohlcv_df \in SessionsTwo, b3_stats \in StatsTwo :
           GenerateTicks(i, ohlcv_df, b3_stats)

SpecTwo == Init /\ [][NextTwo]_vars

----------------------------------------------------------------------------
(* _allocate_volumes on its own, over every vector of draws *)

ZValues == (0 - 3)..3

VolumeInputs ==
    {[total_volume |-> v, vol_noise |-> vn, z |-> z, volumes |-> <<>>, done |-> FALSE] :
        v \in {0, 1, 7, 500, 12000}, vn \in {0, 4, 7},
        z \in UNION {[1..k -> ZValues] : k \in 1..MaxTicks}}

InitVolumes ==
    /\ rng = 0
    /\ engine = <<>>
    /\ calls = [i \in Instances |-> <<>>]
    /\ untouched = [i \in Instances |-> FALSE]
    /\ tvol \in VolumeInputs
    /\ tsess = NoColumn
    /\ probe = NoProbe

\* volumes = self._allocate_volumes(row["Volume"], num_ticks)
AllocateVolumes ==
    /\ ~tvol.done
    /\ tvol' = [tvol EXCEPT
           !.volumes = _allocate_volumes(tvol.total_volume, Len(tvol.z), tvol.vol_noise, tvol.z),
           !.done = TRUE]
    /\ UNCHANGED <<rng, engine, calls, untouched, tsess, probe>>

SpecVolumes == InitVolumes /\ [][AllocateVolumes]_vars

----------------------------------------------------------------------------
(* The timestamp column of generate_ticks' result on its own, for the tick *)
(* counts ticks_per_min or the schedule can give a candle                  *)

TickCounts == {1, 2, MaxTicks, 7, 120, 12001}

\* candle starts in minutes: distinct, a minute or more apart
StartMinutes == {<<0>>, <<2>>, <<0, 1>>, <<0, 2>>, <<0, 1, 3>>, <<1, 0>>}

RECURSIVE SeqsOver(_, _)
\* the sequences of length n over set S
SeqsOver(S, n) ==
    IF n = 0 THEN {<<>>}
    ELSE {Append(q, x) : q \in SeqsOver(S, n - 1), x \in S}

ColumnInputs ==
    {[starts |-> [k \in 1..Len(m) |-> m[k] * 60000000], counts |-> c,
      column |-> <<>>, done |-> FALSE] :
        m \in {mm \in StartMinutes : Len(mm) = 1}, c \in SeqsOver(TickCounts, 1)}
    \cup
    {[starts |-> [k \in 1..Len(m) |-> m[k] * 60000000], counts |-> c,
      column |-> <<>>, done |-> FALSE] :
        m \in {mm \in StartMinutes : Len(mm) = 2}, c \in SeqsOver(TickCounts, 2)}
    \cup
    {[starts |-> [k \in 1..Len(m) |-> m[k] * 60000000], counts |-> c,
      column |-> <<>>, done |-> FALSE] :
        m \in {mm \in StartMinutes : Len(mm) = 3}, c \in SeqsOver({1, 7, 12001}, 3)}

RECURSIVE CandleTimestamps(_, _, _)
\* the timestamp fields the candle loop appends, from candle k on
CandleTimestamps(starts, counts, k) ==
    IF k > Len(starts) THEN <<>>
    ELSE [i \in 1..counts[k] |-> [timestamp |-> TickTimestamp(starts[k], counts[k], i - 1)]]
         \o CandleTimestamps(starts, counts, k + 1)

InitColumn ==
    /\ rng = 0
    /\ engine = <<>>
    /\ calls = [i \in Instances |-> <<>>]
    /\ untouched = [i \in Instances |-> FALSE]
    /\ tvol = NoVolumes
    /\ tsess \in ColumnInputs
    /\ probe = NoProbe

\* the candle loop's timestamps, then sort_values("timestamp")
TimestampColumn ==
    /\ ~tsess.done
    /\ tsess' = [tsess EXCEPT
           !.column = SortByTimestamp(CandleTimestamps(tsess.starts, tsess.counts, 1)),
           !.done = TRUE]
    /\ UNCHANGED <<rng, engine, calls, untouched, tvol, probe>>

SpecColumn == InitColumn /\ [][TimestampColumn]_vars

----------------------------------------------------------------------------
(* _generate_midpath on its own, over every vector of draws *)

\* a candle that is one price
Point(minute) == Candle(minute, 10000000, 10000000, 10000000, 10000000, 100, {})

\* a bearish candle whose drifted close stays inside its range
Drifting(minute) == Candle(minute, 10100000, 10200000, 9950000, 10050000, 40, {})

\* a row whose open lies below its low and whose close lies above its high
Stray(minute) == Candle(minute, 9900000, 10200000, 9950000, 10300000, 5, {})

MidpathRows == {Bull(0), Bear(0), Point(0), Drifting(0), Stray(0)}

\* trend_weight, in tenths: none, the default, a large and a negative one
TrendWeights == {0, 6, 20, 0 - 6}

MidpathInputs ==
    {[row |-> row, trend_weight |-> tw, z |-> z, mid |-> <<>>, done |-> FALSE] :
        row \in MidpathRows, tw \in TrendWeights,
        z \in UNION {[1..k -> ZValues] : k \in 1..MaxTicks}}

InitMidpath ==
    /\ rng = 0
    /\ engine = <<>>
    /\ calls = [i \in Instances |-> <<>>]
    /\ untouched = [i \in Instances |-> FALSE]
    /\ tvol = NoVolumes
    /\ tsess = NoColumn
    /\ probe \in MidpathInputs

\* mid_prices = self._generate_midpath(row, num_ticks)
GenerateMidpath ==
    /\ ~probe.done
    /\ probe' = [probe EXCEPT
           !.mid = _generate_midpath(probe.row, Len(probe.z), probe.trend_weight, probe.z),
           !.done = TRUE]
    /\ UNCHANGED <<rng, engine, calls, untouched, tvol, tsess>>

SpecMidpath == InitMidpath /\ [][GenerateMidpath]_vars

----------------------------------------------------------------------------
(* The tick counts generate_ticks takes from the intraday distribution, on *)
(* their own, over every vector of noise draws                             *)

\* the longest session of the schedule inputs, in candles
MaxMinutes == 4

\* b3_stats['totneg']: a target below, near and far above the number of candles
Targets == {1, 3, 5, 900, 40000}

ScheduleInputs ==
    {[num_minutes |-> Len(z), total_ticks |-> tt, z |-> z,
      u_curve |-> <<>>, counts |-> <<>>, done |-> FALSE] :
        tt \in Targets, z \in UNION {[1..n -> ZValues] : n \in 1..MaxMinutes}}

InitSchedule ==
    /\ rng = 0
    /\ engine = <<>>
    /\ calls = [i \in Instances |-> <<>>]
    /\ untouched = [i \in Instances |-> FALSE]
    /\ tvol = NoVolumes
    /\ tsess = NoColumn
    /\ probe \in ScheduleInputs

\* tick_distribution = self._calculate_intraday_distribution(len(ohlcv_df), totneg), then
\* num_ticks = max(1, int(tick_distribution[minute_idx])) for each candle in turn
ScheduleTicks ==
    /\ ~probe.done
    /\ LET dist == [none |-> FALSE,
                    d    |-> _calculate_intraday_distribution(
                                 probe.num_minutes, probe.total_ticks, probe.z)]
       IN  probe' = [probe EXCEPT
               !.u_curve = _u_shape_curve(probe.num_minutes, probe.z),
               !.counts  = [i \in 1..probe.num_minutes |-> NumTicks(DefaultConfig, dist, i)],
               !.done    = TRUE]
    /\ UNCHANGED <<rng, engine, calls, untouched, tvol, tsess>>

SpecSchedule == InitSchedule /\ [][ScheduleTicks]_vars

----------------------------------------------------------------------------
(* The tick loop of one candle on its own, over mid prices anywhere in the *)
(* candle and samples of the stream                                        *)

\* a candle that closes where it opened
Flat(minute) == Candle(minute, 10000000, 10200000, 9950000, 10000000, 60, {})

TickConfigs == {DefaultConfig, [DefaultConfig EXCEPT !.spread_vol = 10]}

\* states of the stream at the start of the loop
StreamSamples == {(k * 2731) % 65536 : k \in 0..19}

TickInputs ==
    {[cfg |-> cfg, row |-> row, mid_prices |-> m, s |-> s,
      volumes |-> [k \in 1..Len(m) |-> 10 * k],
      locals |-> <<>>, ticks |-> <<>>, done |-> FALSE] :
        cfg \in TickConfigs, row \in {Bull(0), Bear(0), Flat(0)}, s \in StreamSamples,
        m \in UNION {[1..k -> {9950000, 10000000, 10200000}] : k \in 1..MaxTicks}}

InitTick ==
    /\ rng = 0
    /\ engine = <<>>
    /\ calls = [i \in Instances |-> <<>>]
    /\ untouched = [i \in Instances |-> FALSE]
    /\ tvol = NoVolumes
    /\ tsess = NoColumn
    /\ probe \in TickInputs

\* for i in range(num_ticks): ... all_ticks.append({...}), for one candle
TickLoop ==
    /\ ~probe.done
    /\ LET num_ticks == Len(probe.mid_prices)
       IN  probe' = [probe EXCEPT
               !.locals = [k \in 1..num_ticks |->
                              TickLocals(probe.cfg, probe.row, probe.mid_prices[k],
                                         RngAfter(probe.s, 3 * (k - 1)))],
               !.ticks  = [k \in 1..num_ticks |->
                              MakeTick(probe.cfg, probe.row, num_ticks, k - 1,
                                       probe.mid_prices[k], probe.volumes[k],
                                       RngAfter(probe.s, 3 * (k - 1)))],
               !.done   = TRUE]
    /\ UNCHANGED <<rng, engine, calls, untouched, tvol, tsess>>

SpecTick == InitTick /\ [][TickLoop]_vars

----------------------------------------------------------------------------
(* MarketDataPipeline._get_date_range.  A date is its day number, the days *)
(* since 1970-01-01; a string is the sequence of its code points.          *)

\* the most trading days asked for
MaxDays == 5

\* datetime.weekday(): Monday is 0; 1970-01-01 was a Thursday
Weekday(n) == (n + 3) % 7

\* the year, month and day of day number n in the proleptic Gregorian calendar
CivilFromDays(n) ==
    LET z   == n + 719468
        era == z \div 146097
        doe == z - era * 146097
        yoe == (doe - doe \div 1460 + doe \div 36524 - doe \div 146096) \div 365
        doy == doe - (365 * yoe + yoe \div 4 - yoe \div 100)
        mp  == (5 * doy + 2) \div 153
        m   == IF mp < 10 THEN mp + 3 ELSE mp - 9
    IN  [year  |-> yoe + era * 400 + (IF m <= 2 THEN 1 ELSE 0),
         month |-> m,
         day   |-> doy - (153 * mp + 2) \div 5 + 1]

\* v as width decimal digits, zero padded
Digits(v, width) == [i \in 1..width |-> 48 + ((v \div (10 ^ (width - i))) % 10)]

\* check_date.strftime("%Y-%m-%d")
Strftime(n) ==
    LET c == CivilFromDays(n)
    IN  Digits(c.year, 4) \o <<45>> \o Digits(c.month, 2) \o <<45>> \o Digits(c.day, 2)

\* a < b for str: by the first code point that differs, a proper prefix first
StrLess(a, b) ==
    \E k \in 1..(Min(Len(a), Len(b)) + 1) :
        /\ \A j \in 1..(k - 1) : a[j] = b[j]
        /\ IF k > Len(a) THEN k <= Len(b)
           ELSE k <= Len(b) /\ a[k] < b[k]

RECURSIVE DateLoop(_, _, _, _, _)
\* for i in range(stop): ... from pass i on, with dates collected so far
DateLoop(days, stop, end_date, i, dates) ==
    IF i >= stop THEN dates
    ELSE LET check_date == end_date - i
             appended   == IF Weekday(check_date) < 5
                           THEN Append(dates, Strftime(check_date))
                           ELSE dates
         IN  IF Len(appended) >= days THEN appended
             ELSE DateLoop(days, stop, end_date, i + 1, appended)

\* the loop over range(self.days): the look-back is not doubled
_get_date_range_short(days, end_date) ==
    SortSeq(DateLoop(days, days, end_date, 0, <<>>), StrLess)

\* _get_date_range() of a pipeline with self.days = days when datetime.now() falls on
\* day end_date
_get_date_range(days, end_date) ==
    SortSeq(DateLoop(days, days * 2, end_date, 0, <<>>), StrLess)

\* datetime.now(): the days from Monday 2024-02-26 to Sunday 2024-03-10 and from
\* Monday 2024-12-23 to Sunday 2025-01-12
Todays == (19779..19792) \cup (20080..20100)

DateInputs ==
    {[days |-> d, end_date |-> n, dates |-> <<>>, done |-> FALSE] :
        d \in 0..MaxDays, n \in Todays}

InitDates ==
    /\ rng = 0
    /\ engine = <<>>
    /\ calls = [i \in Instances |-> <<>>]
    /\ untouched = [i \in Instances |-> FALSE]
    /\ tvol = NoVolumes
    /\ tsess = NoColumn
    /\ probe \in DateInputs

\* dates = self._get_date_range()
GetDateRange ==
    /\ ~probe.done
    /\ probe' = [probe EXCEPT
           !.dates = _get_date_range(probe.days, probe.end_date),
           !.done = TRUE]
    /\ UNCHANGED <<rng, engine, calls, untouched, tvol, tsess>>

SpecDates == InitDates /\ [][GetDateRange]_vars

----------------------------------------------------------------------------
(* LiquidityAnalyzer.select_by_percentiles on the table analyze_tickers    *)
(* builds: one row per ticker, sorted by liquidity descending, labelled by *)
(* position, each percentile an exact rational num / den.                  *)

\* the most rows of a liquidity table
MaxRows == 4

TickerNames == <<"PETR4.SA", "VALE3.SA", "ITUB4.SA", "BBDC4.SA", "ABEV3.SA">>

\* twice the average rank of row i of column liquidity: rank() of line 72
Rank2(liquidity, i) ==
    2 * Cardinality({j \in 1..Len(liquidity) : liquidity[j] < liquidity[i]})
    + Cardinality({j \in 1..Len(liquidity) : liquidity[j] = liquidity[i]}) + 1

\* the table of analyze_tickers for the liquidity column given, with ^BVSP in row ibov
\* (in no row when ibov is 0): percentile = rank(pct=True) * 100
LiquidityTable(liquidity, ibov) ==
    [i \in 1..Len(liquidity) |->
        [label      |-> i,
         ticker     |-> IF i = ibov THEN "^BVSP" ELSE TickerNames[i],
         liquidity  |-> liquidity[i],
         percentile |-> [num |-> 100 * Rank2(liquidity, i), den |-> 2 * Len(liquidity)]]]

\* np.linspace(10, 90, num_tickers)[j], j from 0, as num / den
TargetPercentile(num_tickers, j) ==
    IF num_tickers = 1 THEN [num |-> 10, den |-> 1]
    ELSE [num |-> 10 * (num_tickers - 1) + 80 * j, den |-> num_tickers - 1]

\* abs(percentile - target_percentile) of a row, over the denominator the rows share
Distance(row, target) ==
    Abs(row.percentile.num * target.den - target.num * row.percentile.den)

\* df.loc[df['distance'].idxmin()]: the first row of df at the least distance
Closest(df, target) ==
    LET k == CHOOSE k \in 1..Len(df) :
                 /\ \A j \in 1..Len(df) : Distance(df[k], target) <= Distance(df[j], target)
                 /\ \A j \in 1..(k - 1) : Distance(df[j], target) > Distance(df[k], target)
    IN  df[k]

\* the selected ticker's row left in the frame
Remaining_All(df, ticker) == df

\* df[df['ticker'] != closest['ticker']]
Remaining(df, ticker) == SelectSeq(df, LAMBDA row : row.ticker # ticker)

RECURSIVE SelectLoop(_, _, _, _)
\* for target_percentile in percentiles: ...  from target j (from 0) on; idxmin of an
\* empty column raises ValueError
SelectLoop(df, num_tickers, j, selected) ==
    IF j >= num_tickers THEN [outcome |-> "ok", selected |-> selected]
    ELSE IF df = <<>> THEN [outcome |-> "ValueError", selected |-> <<>>]
    ELSE LET closest == Closest(df, TargetPercentile(num_tickers, j))
         IN  SelectLoop(Remaining(df, closest.ticker), num_tickers, j + 1,
                        Append(selected, closest.ticker))

\* if exclude_tickers: None and the empty list are both false
Excludes(exclude_tickers) == ~exclude_tickers.none /\ exclude_tickers.items # {}

\* The caller's table once select_by_percentiles is over: both branches work on a
\* copy, so the distance column and the row removals never reach it
CallerTable(liquidity_df) == liquidity_df

\* select_by_percentiles(liquidity_df, num_tickers, exclude_tickers): what it returns
\* or raises; np.linspace raises ValueError for num < 0
select_by_percentiles(liquidity_df, num_tickers, exclude_tickers) ==
    LET df == IF Excludes(exclude_tickers)
              THEN SelectSeq(liquidity_df, LAMBDA row : row.ticker \notin exclude_tickers.items)
              ELSE liquidity_df
    IN  IF Len(df) < num_tickers
        THEN [outcome |-> "ok", selected |-> [k \in 1..Len(df) |-> df[k].ticker]]
        ELSE IF num_tickers < 0
        THEN [outcome |-> "ValueError", selected |-> <<>>]
        ELSE SelectLoop(df, num_tickers, 0, <<>>)

\* liquidity columns as sort_values('liquidity', ascending=False) leaves them
LiquidityColumns ==
    {c \in UNION {[1..n -> 1..3] : n \in 1..MaxRows} :
        \A k \in 1..(Len(c) - 1) : c[k] >= c[k + 1]}

\* exclude_tickers: None, [], the pipeline's ["^BVSP"], and a longer list
ExcludeValues ==
    {[none |-> TRUE, items |-> {}], [none |-> FALSE, items |-> {}],
     [none |-> FALSE, items |-> {"^BVSP"}],
     [none |-> FALSE, items |-> {"^BVSP", "PETR4.SA"}]}

SelectInputs ==
    {[liquidity_df |-> LiquidityTable(c, ibov), num_tickers |-> num,
      exclude_tickers |-> ex, outcome |-> "", selected |-> <<>>, table_after |-> <<>>,
      done |-> FALSE] :
        c \in LiquidityColumns, ibov \in 0..MaxRows, num \in (0 - 1)..(MaxRows + 1),
        ex \in ExcludeValues}

InitSelect ==
    /\ rng = 0
    /\ engine = <<>>
    /\ calls = [i \in Instances |-> <<>>]
    /\ untouched = [i \in Instances |-> FALSE]
    /\ tvol = NoVolumes
    /\ tsess = NoColumn
    /\ probe \in SelectInputs

\* selected = self.liquidity_analyzer.select_by_percentiles(liquidity_df, num, exclude)
SelectByPercentiles ==
    /\ ~probe.done
    /\ LET r == select_by_percentiles(probe.liquidity_df, probe.num_tickers,
                                      probe.exclude_tickers)
       IN  probe' = [probe EXCEPT
               !.outcome     = r.outcome,
               !.selected    = r.selected,
               !.table_after = CallerTable(probe.liquidity_df),
               !.done        = TRUE]
    /\ UNCHANGED <<rng, engine, calls, untouched, tvol, tsess>>

SpecSelect == InitSelect /\ [][SelectByPercentiles]_vars

----------------------------------------------------------------------------
(* Properties *)

\* the calls made so far on instance i
CallsOf(i) == {calls[i][k] : k \in 1..Len(calls[i])}

\* a row with all of Open, High, Low, Close and Volume present
IsComplete(row) == \A f \in {"Open", "High", "Low", "Close", "Volume"} : f \notin row.nan

\* the number of complete rows of a candle sequence
NumComplete(ohlcv_df) == Cardinality({k \in 1..Len(ohlcv_df) : IsComplete(ohlcv_df[k])})

\* no trade-count target: None, an empty dict, or a dict without the key
NoTarget(b3_stats) == b3_stats.none \/ \A kv \in b3_stats.items : kv[1] # "totneg"

\* C1: two instances built with the same seed and configuration, each making its
\* first call with the same candles and statistics and with nothing else using the
\* random stream between its construction and that call, return the same ticks.
C1_SameSeedSameOutput ==
    \A c1 \in CallsOf(1), c2 \in CallsOf(2) :
        ( /\ engine[1] = engine[2]
          /\ c1.fresh /\ c2.fresh
          /\ c1.ohlcv_df = c2.ohlcv_df
          /\ c1.b3_stats = c2.b3_stats )
        => (c1.outcome = c2.outcome /\ c1.ticks = c2.ticks)

C1_Witness ==
    \E c1 \in CallsOf(1), c2 \in CallsOf(2) :
        /\ engine[1] = engine[2]
        /\ c1.fresh /\ c2.fresh
        /\ c1.ohlcv_df = c2.ohlcv_df
        /\ c1.b3_stats = c2.b3_stats
        /\ c1.outcome = "ok" /\ Len(c1.ticks) >= 4
        /\ c1.ticks = c2.ticks

\* C2: on one instance, any two calls with the same candles and the same statistics
\* return the same ticks.
C2_RepeatedCallsAgree ==
    \A i \in DOMAIN engine :
        \A j, k \in 1..Len(calls[i]) :
            ( /\ j < k
              /\ calls[i][j].ohlcv_df = calls[i][k].ohlcv_df
              /\ calls[i][j].b3_stats = calls[i][k].b3_stats )
            => ( /\ calls[i][j].outcome = calls[i][k].outcome
                 /\ calls[i][j].ticks = calls[i][k].ticks )

\* C3: every tick generate_ticks returns has bid <= ask.
C3_BidAtMostAsk ==
    \A i \in Instances : \A c \in CallsOf(i) :
        \A k \in 1..Len(c.ticks) : c.ticks[k].bid <= c.ticks[k].ask

\* C4: every tick of a candle with low <= open, close <= high has its bid, ask and
\* trade_price within [low, high] of that candle.
C4_WithinCandleRange ==
    \A i \in Instances : \A c \in CallsOf(i) :
        \A k \in 1..Len(c.ticks), m \in 1..Len(c.ohlcv_df) :
            LET t   == c.ticks[k]
                row == c.ohlcv_df[m]
            IN  ( /\ IsComplete(row)
                  /\ row.Low <= row.Open /\ row.Open <= row.High
                  /\ row.Low <= row.Close /\ row.Close <= row.High
                  /\ row.timestamp <= t.timestamp
                  /\ t.timestamp < row.timestamp + 60000000 )
                => ( /\ row.Low <= t.bid /\ t.bid <= row.High
                     /\ row.Low <= t.ask /\ t.ask <= row.High
                     /\ row.Low <= t.trade_price /\ t.trade_price <= row.High )

\* C5: the timestamps of the returned sequence are strictly increasing, for candles
\* with distinct starts a minute or more apart and every per-candle tick count.
C5_StrictlyIncreasing ==
    tsess.done =>
        \A k \in 1..(Len(tsess.column) - 1) :
            tsess.column[k].timestamp < tsess.column[k + 1].timestamp

\* C6: a call with no trade-count target that returns, returns ticks_per_min ticks
\* for each complete candle: ticks_per_min times the number of complete candles.
C6_TicksPerMinEach ==
    \A i \in DOMAIN engine : \A c \in CallsOf(i) :
        (NoTarget(c.b3_stats) /\ c.outcome = "ok")
        => /\ Len(c.ticks) = engine[i].ticks_per_min * NumComplete(c.ohlcv_df)
           /\ \A m \in 1..Len(c.ohlcv_df) :
                  IsComplete(c.ohlcv_df[m]) =>
                      Cardinality({k \in 1..Len(c.ticks) :
                          /\ c.ohlcv_df[m].timestamp <= c.ticks[k].timestamp
                          /\ c.ticks[k].timestamp < c.ohlcv_df[m].timestamp + 60000000})
                      = engine[i].ticks_per_min

C6_Witness ==
    \E i \in DOMAIN engine : \E c \in CallsOf(i) :
        /\ NoTarget(c.b3_stats) /\ ~c.b3_stats.none
        /\ c.outcome = "ok"
        /\ NumComplete(c.ohlcv_df) = 2 /\ Len(c.ohlcv_df) = 3
        /\ engine[i].ticks_per_min = MaxTicks
        /\ Len(c.ticks) = 2 * MaxTicks

C8_EmptyInEmptyOut ==
    \A i \in Instances : \A c \in CallsOf(i) :
        NumComplete(c.ohlcv_df) = 0 => (c.outcome = "ok" /\ c.ticks = <<>>)

\* C9: no engine with ticks_per_min <= 0, spread_vol < 0 or vol_noise < 0 comes out of
\* construction, so generate_ticks never runs on one.
C9_DegenerateRejected ==
    \A i \in DOMAIN engine :
        calls[i] # <<>> =>
            /\ engine[i].ticks_per_min > 0
            /\ engine[i].spread_vol >= 0
            /\ engine[i].vol_noise >= 0

\* C10: on an engine with a valid configuration, a call given a candle with a missing
\* field raises nothing, returns no tick in that candle's minute and returns the full
\* count for every complete candle (ticks_per_min each when there is no target).
C10_IncompleteDropped ==
    \A i \in DOMAIN engine : \A c \in CallsOf(i) :
        ( /\ engine[i] \in ValidConfigs
          /\ \E m \in 1..Len(c.ohlcv_df) : ~IsComplete(c.ohlcv_df[m]) )
        => /\ c.outcome = "ok"
           /\ \A m \in 1..Len(c.ohlcv_df), k \in 1..Len(c.ticks) :
                  ~IsComplete(c.ohlcv_df[m]) =>
                      ~( /\ c.ohlcv_df[m].timestamp <= c.ticks[k].timestamp
                         /\ c.ticks[k].timestamp < c.ohlcv_df[m].timestamp + 60000000 )
           /\ NoTarget(c.b3_stats) =>
                  Len(c.ticks) = engine[i].ticks_per_min * NumComplete(c.ohlcv_df)

\* C11: in a candle that receives K ticks the first tick is at the candle start,
\* consecutive ticks are exactly 60 / K seconds apart and strictly increasing, and
\* every tick lies before candle start + 60 seconds.
C11_EvenSpacing ==
    (tsess.done /\ Len(tsess.starts) = 1) =>
        LET K     == tsess.counts[1]
            start == tsess.starts[1]
        IN  /\ Len(tsess.column) = K
            /\ tsess.column[1].timestamp = start
            /\ \A k \in 1..(K - 1) :
                   /\ tsess.column[k].timestamp < tsess.column[k + 1].timestamp
                   /\ 60000000 % K = 0
                   /\ tsess.column[k + 1].timestamp - tsess.column[k].timestamp
                          = 60000000 \div K
            /\ \A k \in 1..K : tsess.column[k].timestamp < start + 60000000

\* what instance i's calls return when it is the only user of the stream: call n
\* (from 1) of the calls made so far, with the stream at s before call n
RECURSIVE AloneFrom(_, _, _)
AloneFrom(i, n, s) ==
    IF n > Len(calls[i]) THEN <<>>
    ELSE LET r == generate_ticks(engine[i], calls[i][n].ohlcv_df, calls[i][n].b3_stats, s)
         IN  <<[outcome |-> r.outcome, ticks |-> r.ticks]>> \o AloneFrom(i, n + 1, r.rng)

\* C12: what an instance's calls return is what they return when the instance runs
\* alone, whatever another instance does in between.
C12_InstanceOwnsStream ==
    \A i \in DOMAIN engine :
        LET alone == AloneFrom(i, 1, SeedState(engine[i].seed))
        IN  \A n \in 1..Len(calls[i]) :
                /\ calls[i][n].outcome = alone[n].outcome
                /\ calls[i][n].ticks = alone[n].ticks

----------------------------------------------------------------------------
(* The end-to-end example: the defaults (120 ticks per minute) on one candle *)

ExampleSeeds == 0..63

NextExample ==
    \/ \E sd \in ExampleSeeds : Construct(1, [DefaultConfig EXCEPT !.seed = sd])
    \/ GenerateTicks(1, <<Bull(0)>>, NoneStats)

SpecExample == Init /\ [][NextExample]_vars

\* C13: for the candle open=10.00 high=10.20 low=9.95 close=10.15 volume=12000 and
\* ticks_per_min=120, spread_mean=0.0015, spread_vol=0.0003, default trend weight,
\* generate_ticks returns 120 ticks 0.5 seconds apart from the candle start, each with
\* bid <= ask and bid, ask, trade_price in [9.95, 10.20], and a total volume within
\* 120 of 12000.
C13_EndToEndExample ==
    \A c \in CallsOf(1) :
        ( /\ c.ohlcv_df = <<Candle(0, 10000000, 10200000, 9950000, 10150000, 12000, {})>>
          /\ c.b3_stats.none
          /\ engine[1].ticks_per_min = 120
          /\ engine[1].spread_mean = 15 /\ engine[1].spread_vol = 3
          /\ engine[1].trend_weight = 6 )
        => /\ c.outcome = "ok"
           /\ Len(c.ticks) = 120
           /\ \A k \in 1..Len(c.ticks) :
                  /\ c.ticks[k].timestamp = (k - 1) * 500000
                  /\ c.ticks[k].bid <= c.ticks[k].ask
                  /\ 9950000 <= c.ticks[k].bid /\ c.ticks[k].bid <= 10200000
                  /\ 9950000 <= c.ticks[k].ask /\ c.ticks[k].ask <= 10200000
                  /\ 9950000 <= c.ticks[k].trade_price
                  /\ c.ticks[k].trade_price <= 10200000
           /\ Abs(12000 - SumSeq([k \in 1..Len(c.ticks) |-> c.ticks[k].volume])) <= 120

C15_MidWithinRange ==
    (probe.done /\ probe.row.Low <= probe.row.High /\ Len(probe.z) >= 1)
    => /\ Len(probe.mid) = Len(probe.z)
       /\ \A k \in 1..Len(probe.mid) :
              probe.row.Low <= probe.mid[k] /\ probe.mid[k] <= probe.row.High

\* a path of MaxTicks prices for a row with open below low and close above high,
\* clipped at both ends
C15_Witness ==
    /\ probe.done
    /\ Len(probe.mid) = MaxTicks
    /\ probe.row.Open < probe.row.Low /\ probe.row.Close > probe.row.High
    /\ probe.trend_weight = 20
    /\ \E k \in 1..MaxTicks : probe.z[k] = 3
    /\ probe.mid[1] = probe.row.Low /\ probe.mid[MaxTicks] = probe.row.High

\* the noise term of every point is zero
ZeroNoise == \A k \in 1..Len(probe.z) : (probe.row.High - probe.row.Low) * probe.z[k] = 0

\* low <= open, close <= high
OpenCloseInRange ==
    /\ probe.row.Low <= probe.row.Open /\ probe.row.Open <= probe.row.High
    /\ probe.row.Low <= probe.row.Close /\ probe.row.Close <= probe.row.High

C17_CountsSumNearTarget ==
    (probe.done /\ probe.num_minutes >= 1 /\ probe.total_ticks >= 1)
    => LET total == SumSeq(probe.u_curve)
       IN  /\ Len(probe.counts) = probe.num_minutes
           /\ \A i \in 1..Len(probe.counts) :
                  /\ probe.counts[i] \in Nat /\ probe.counts[i] >= 1
                  /\ probe.counts[i] =
                         IF probe.u_curve[i] * probe.total_ticks < total THEN 1
                         ELSE (probe.u_curve[i] * probe.total_ticks) \div total
           /\ Abs(SumSeq(probe.counts) - probe.total_ticks) < probe.num_minutes

\* a session of MaxMinutes candles where one count is a floor of 2 or more, another is
\* raised to 1, and the counts sum to more than the target
C17_Witness ==
    /\ probe.done /\ probe.num_minutes = MaxMinutes
    /\ \E i \in 1..Len(probe.counts) : probe.counts[i] >= 2
    /\ \E i \in 1..Len(probe.counts) :
           probe.u_curve[i] * probe.total_ticks < SumSeq(probe.u_curve)
    /\ SumSeq(probe.counts) > probe.total_ticks

\* C18: for 3 one-minute candles and total_trade_count = 900 the tick count of the
\* first minute and that of the last minute are both higher than the middle
\* minute's; with the noise factor equal for all minutes, the activity weight of the
\* last minute exceeds the middle minute's, as the first minute's does.
C18_UShapeOfThree ==
    (probe.done /\ probe.num_minutes = 3 /\ probe.total_ticks = 900)
    => /\ probe.counts[1] > probe.counts[2]
       /\ probe.counts[3] > probe.counts[2]
       /\ (probe.z[1] = probe.z[2] /\ probe.z[2] = probe.z[3])
              => /\ probe.u_curve[1] > probe.u_curve[2]
                 /\ probe.u_curve[3] > probe.u_curve[2]

\* the quote of a tick's own side
OwnQuote(t) == IF t.side = "buy" THEN t.ask ELSE t.bid

\* C19: for every tick, side is buy or sell, the recorded side is the one whose quote
\* was used, and the trade price before rounding is that quote (ask for buy, bid for
\* sell) times a factor in [0.999, 1.001], to half a unit of the fixed point.
C19_TradeOffOwnQuote ==
    probe.done =>
        \A k \in 1..Len(probe.locals) :
            LET t == probe.locals[k]
            IN  /\ t.side \in {"buy", "sell"}
                /\ probe.ticks[k].side = t.side
                /\ probe.ticks[k].trade_price = Round4(t.trade_price)
                /\ 1000 * Abs(t.trade_price - OwnQuote(t)) <= OwnQuote(t) + 500

\* a candle of MaxTicks ticks with a buy above its ask and a sell below its bid, both
\* further from the other side's quote than the factor allows
C19_Witness ==
    /\ probe.done /\ Len(probe.locals) = MaxTicks
    /\ \E k \in 1..MaxTicks :
           LET t == probe.locals[k]
           IN  /\ t.side = "buy" /\ t.trade_price > t.ask
               /\ 1000 * (t.trade_price - t.bid) > t.bid + 500
    /\ \E k \in 1..MaxTicks :
           LET t == probe.locals[k]
           IN  /\ t.side = "sell" /\ t.trade_price < t.bid
               /\ 1000 * (t.ask - t.trade_price) > t.ask + 500

\* C20: the buy probability of every tick of a candle is 0.55 exactly when the
\* candle's close is strictly above its open and 0.45 otherwise (flat and bearish
\* candles alike), the same for all ticks of the candle, and the side drawn is buy
\* exactly when the uniform variate falls below it.
C20_BuyProbability ==
    probe.done =>
        \A k \in 1..Len(probe.locals) :
            LET t == probe.locals[k]
            IN  /\ (probe.row.Close > probe.row.Open) => t.prob_buy = 55
                /\ (probe.row.Close <= probe.row.Open) => t.prob_buy = 45
                /\ t.prob_buy = probe.locals[1].prob_buy
                /\ (t.side = "buy") <=>
                       (t.u < (IF probe.row.Close > probe.row.Open THEN 55 ELSE 45))

\* a flat candle of MaxTicks ticks with a sell drawn on a variate in [0.45, 0.55), and
\* a buy
C20_Witness ==
    /\ probe.done /\ Len(probe.locals) = MaxTicks
    /\ probe.row.Close = probe.row.Open
    /\ \E k \in 1..MaxTicks :
           /\ probe.locals[k].side = "sell"
           /\ probe.locals[k].u >= 45 /\ probe.locals[k].u < 55
    /\ \E k \in 1..MaxTicks : probe.locals[k].side = "buy"

\* the number the digits of s from position a to position b spell
NumberAt(s, a, b) == SumSeq([k \in 1..(b - a + 1) |-> (s[a + k - 1] - 48) * (10 ^ (b - a + 1 - k))])

\* the day number of the date a YYYY-MM-DD string names
ParseDate(s) ==
    LET m   == NumberAt(s, 6, 7)
        y   == NumberAt(s, 1, 4) - (IF m <= 2 THEN 1 ELSE 0)
        era == y \div 400
        yoe == y - era * 400
        doy == (153 * (IF m > 2 THEN m - 3 ELSE m + 9) + 2) \div 5 + NumberAt(s, 9, 10) - 1
        doe == yoe * 365 + yoe \div 4 - yoe \div 100 + doy
    IN  era * 146097 + doe - 719468

\* s has the form YYYY-MM-DD
IsDateString(s) ==
    /\ Len(s) = 10
    /\ s[5] = 45 /\ s[8] = 45
    /\ \A k \in {1, 2, 3, 4, 6, 7, 9, 10} : s[k] \in 48..57

\* C21: run on a weekday with days >= 1, _get_date_range returns exactly days date
\* strings; all are Monday-to-Friday dates, none is after today, and the list is in
\* ascending order with no date twice.
C21_DateRange ==
    (probe.done /\ probe.days >= 1 /\ Weekday(probe.end_date) < 5)
    => /\ Len(probe.dates) = probe.days
       /\ \A k \in 1..Len(probe.dates) :
              /\ IsDateString(probe.dates[k])
              /\ Weekday(ParseDate(probe.dates[k])) < 5
              /\ ParseDate(probe.dates[k]) <= probe.end_date
       /\ \A k, l \in 1..Len(probe.dates) :
              k < l => /\ ParseDate(probe.dates[k]) < ParseDate(probe.dates[l])
                       /\ probe.dates[k] # probe.dates[l]

\* MaxDays dates asked for on a Monday in January, returned across a weekend and the
\* turn of the year
C21_Witness ==
    /\ probe.done /\ probe.days = MaxDays
    /\ Weekday(probe.end_date) = 0
    /\ Len(probe.dates) = MaxDays
    /\ NumberAt(probe.dates[1], 1, 4) = 2024
    /\ NumberAt(probe.dates[MaxDays], 1, 4) = 2025
    /\ ParseDate(probe.dates[MaxDays]) = probe.end_date

\* the tickers of the table that are not excluded
Available ==
    {probe.liquidity_df[k].ticker : k \in 1..Len(probe.liquidity_df)}
        \ probe.exclude_tickers.items

\* the distance of a ticker's percentile in the table from target
DistanceOf(ticker, target) ==
    Distance(probe.liquidity_df[CHOOSE k \in 1..Len(probe.liquidity_df) :
                                    probe.liquidity_df[k].ticker = ticker], target)

\* C22: select_by_percentiles (num_tickers >= 0) returns no excluded ticker and no
\* ticker twice.  With num_tickers or more tickers available it returns exactly
\* num_tickers, each the not-yet-selected available ticker whose percentile is
\* closest to its target; with fewer it returns all the available ones; and the
\* table passed in is left as it was.
C22_SelectByPercentiles ==
    (probe.done /\ probe.num_tickers >= 0)
    => LET sel == probe.selected
           num == probe.num_tickers
       IN  /\ probe.outcome = "ok"
           /\ \A k \in 1..Len(sel) : sel[k] \notin probe.exclude_tickers.items
           /\ \A k, l \in 1..Len(sel) : k # l => sel[k] # sel[l]
           /\ IF Cardinality(Available) >= num
              THEN /\ Len(sel) = num
                   /\ \A k \in 1..Len(sel) :
                          /\ sel[k] \in Available
                          /\ \A other \in Available \ {sel[l] : l \in 1..(k - 1)} :
                                 DistanceOf(sel[k], TargetPercentile(num, k - 1))
                                     <= DistanceOf(other, TargetPercentile(num, k - 1))
              ELSE {sel[k] : k \in 1..Len(sel)} = Available
           /\ probe.table_after = probe.liquidity_df

\* two tickers selected from a table of MaxRows rows with ^BVSP excluded and more
\* than two left, the second target's closest ticker being one of a tie
C22_Witness ==
    /\ probe.done /\ probe.num_tickers = 2
    /\ Len(probe.liquidity_df) = MaxRows
    /\ "^BVSP" \in probe.exclude_tickers.items
    /\ \E k \in 1..MaxRows : probe.liquidity_df[k].ticker = "^BVSP"
    /\ Cardinality(Available) > 2
    /\ Len(probe.selected) = 2
    /\ \E other \in Available \ {probe.selected[1], probe.selected[2]} :
           DistanceOf(other, TargetPercentile(2, 1))
               = DistanceOf(probe.selected[2], TargetPercentile(2, 1))

====
